---------------------------- MODULE Spec2Model ----------------------------
(***************************************************************************)
(* A model of src/src/prediction/predictor_model.py: the ImageClassifier   *)
(* wrapper around a ResNet18 network (construction, the fit loop with      *)
(* early stopping, predict, evaluate, save and load).                      *)
(*                                                                         *)
(* The framework objects are abstracted to what the wrapper observes:      *)
(*   - a network is a heap cell [init, upd, bn, mode, grad]: the random    *)
(*     initialisation it carries, the number of optimizer updates applied  *)
(*     to its parameters, the number of batch-norm running-statistics      *)
(*     updates (a forward pass in training mode), its train/eval mode and  *)
(*     whether backward() has left gradients on its parameters;            *)
(*   - a data loader is its number of batches (fit, evaluate) or its       *)
(*     sequence of batch sizes (predict);                                  *)
(*   - the early stopper's verdict is an arbitrary boolean.                *)
(***************************************************************************)
EXTENDS Integers, Sequences, FiniteSets, TLC

\* ------------------------------------------------------------------ bounds
MaxCalls == 3        \* calls made after the first construction in one run
MaxEpochs == 2       \* largest max_epochs a classifier is built with
MaxBatches == 2      \* largest number of batches in a data loader
MaxBatchSize == 2    \* largest number of samples in one batch

\* ------------------------------------------------------- inputs enumerated
OptimizerNames == {"adam", "sgd", "rmsprop"}
SchedulerNames == {"None", "step", "exponential", "plateau", "cosine_annealing", "linear"}
KwargsValues == {"None", "valid"}   \* None, or a dict valid for the scheduler
LrValues == {1}                     \* learning rate, in thousandths
PatienceValues == {3}
DeltaValues == {5}                  \* early_stopping_delta, in hundredths
ClassValues == {2}                  \* num_classes

\* a DataLoader: its identity and len(loader); valid_data = None is NoLoader
NoLoader == [given |-> FALSE, n |-> 0, id |-> "none"]
Loaders(id) == [given : {TRUE}, n : 0..MaxBatches, id : {id}]
\* loaders that are only handed to get_loss, which reads them as empty or not
LossLoaders(id) == [given : {TRUE}, n : {0, 1}, id : {id}]

VARIABLES
    clf,        \* the ImageClassifier the program holds, or NoClf
    nets,       \* heap of networks
    disk,       \* contents of the predictor directory
    pc,         \* position inside fit; "done" as a call ends, "idle" between calls
    calls,      \* number of fit, predict, evaluate, save and load calls made
    lastCall,   \* name of the last API call
    result,     \* "ok" or the exception the last call raised
    ctorArgs,   \* arguments of the last constructor call
    fitTrain,   \* train_data of the running / last fit
    fitValid,   \* valid_data of the running / last fit
    epoch,      \* loop variable of fit
    batch,      \* batches consumed by the running forward_backward
    trainLoss,  \* train_loss of fit
    valLoss,    \* val_loss of fit
    barBound,   \* train_progress_bar is bound
    hist,       \* what the running / last fit has done (counters)
    batchLog,   \* framework calls made for the current batch, in order
    predData,   \* loader of the last predict
    predOut,    \* value returned by the last predict
    snap        \* the classifier as it was at the last save

vars == <<clf, nets, disk, pc, calls, lastCall, result, ctorArgs, fitTrain,
          fitValid, epoch, batch, trainLoss, valLoss, barBound, hist,
          batchLog, predData, predOut, snap>>

fitLocals == <<fitTrain, fitValid, epoch, batch, trainLoss, valLoss, barBound,
               hist, batchLog>>

NoClf == [exists |-> FALSE]
NoDisk == [exists |-> FALSE]
ZeroLoss == [data |-> "zero"]
\* epochs: loop bodies begun; fbDone: forward_backward calls that returned;
\* optSteps / schedSteps: optimizer.step / lr_scheduler.step calls of the current
\* forward_backward; schedAt: optSteps when the scheduler was stepped;
\* stopCalls / stopArg / stopped: calls of the early stopper, its last argument,
\* whether it has returned true; afterStop: forward_backward or get_loss calls
\* made after it returned true.
NoHist == [epochs |-> 0, fbDone |-> 0, optSteps |-> 0, schedSteps |-> 0,
           schedAt |-> 0, stopCalls |-> 0, stopArg |-> ZeroLoss,
           stopped |-> FALSE, afterStop |-> 0]
NoPred == [labels |-> <<>>, probs |-> <<>>]
NoPredData == [batches |-> <<>>, state |-> NoDisk]


\* ------------------------------------------------------ framework objects
\* resnet18(...) followed by the replacement of fc by a fresh Linear layer:
\* a new network, in training mode (the nn.Module default), without gradients.
\* `id` names its random initialisation.
NewNet(id) == [init |-> id, upd |-> 0, bn |-> 0, mode |-> "train", grad |-> FALSE]

\* model.state_dict(): parameters and buffers, not the mode or the gradients
StateDict(net) == [init |-> net.init, upd |-> net.upd, bn |-> net.bn]

\* model.load_state_dict(state)
LoadStateDict(net, state) ==
    [net EXCEPT !.init = state.init, !.upd = state.upd, !.bn = state.bn]

\* model(X): in training mode the batch-norm running statistics move
ForwardPass(net) == IF net.mode = "train" THEN [net EXCEPT !.bn = @ + 1] ELSE net

\* --------------------------------------------- get_optimizer / get_lr_scheduler
GetOptimizer(name) ==
    CASE name = "adam" -> "Adam"
      [] name = "sgd" -> "SGD"
      [] OTHER -> "ValueError"

\* C6 mutant: an unknown scheduler name falls back to StepLR instead of raising
GetLrSchedulerFallback(name) ==
    CASE name = "exponential" -> "ExponentialLR"
      [] name = "plateau" -> "ReduceLROnPlateau"
      [] name = "cosine_annealing" -> "CosineAnnealingLR"
      [] OTHER -> "StepLR"

GetLrScheduler(name) ==
    CASE name = "step" -> "StepLR"
      [] name = "exponential" -> "ExponentialLR"
      [] name = "plateau" -> "ReduceLROnPlateau"
      [] name = "cosine_annealing" -> "CosineAnnealingLR"
      [] OTHER -> "ValueError"

\* ------------------------------------------------------------- constructor
\* ImageClassifier.__init__(**a) building its network in heap cell `id`.
\* Returns [result, obj]; obj is NoClf when the constructor raises.
\* Line 130 evaluates get_lr_scheduler(...) before it unpacks
\* **self.lr_scheduler_kwargs, so an unsupported name raises ValueError even
\* when the kwargs are None; a supported name with kwargs None raises TypeError.
Construct(a, id) ==
    LET optCls == GetOptimizer(a.optimizer)
        schCls == IF a.lr_scheduler = "None" THEN "None"
                  ELSE GetLrScheduler(a.lr_scheduler)
        obj == [exists |-> TRUE,
                lr |-> a.lr,
                optimizer_str |-> a.optimizer,
                max_epochs |-> a.max_epochs,
                num_classes |-> a.num_classes,
                early_stopping |-> a.early_stopping,
                early_stopping_delta |-> a.early_stopping_delta,
                early_stopping_patience |-> a.early_stopping_patience,
                lr_scheduler_str |-> a.lr_scheduler,
                lr_scheduler_kwargs |-> a.lr_scheduler_kwargs,
                model |-> id,
                optimizer |-> [cls |-> optCls, params |-> id],
                lr_scheduler |-> schCls]
    IN  IF optCls = "ValueError" THEN [result |-> "ValueError", obj |-> NoClf]
        ELSE IF schCls = "ValueError" THEN [result |-> "ValueError", obj |-> NoClf]
        ELSE IF a.lr_scheduler # "None" /\ a.lr_scheduler_kwargs = "None"
             THEN [result |-> "TypeError", obj |-> NoClf]
        ELSE [result |-> "ok", obj |-> obj]

CtorArgs ==
    [num_classes : ClassValues, lr : LrValues, optimizer : OptimizerNames,
     max_epochs : 0..MaxEpochs, early_stopping : BOOLEAN,
     early_stopping_patience : PatienceValues,
     early_stopping_delta : DeltaValues, lr_scheduler : SchedulerNames,
     lr_scheduler_kwargs : KwargsValues]

\* ------------------------------------------------------------------- state
Init ==
    /\ clf = NoClf
    /\ nets = <<>>
    /\ disk = NoDisk
    /\ pc = "idle"
    /\ calls = 0
    /\ lastCall = "none"
    /\ result = "ok"
    /\ ctorArgs = NoClf
    /\ fitTrain = NoLoader
    /\ fitValid = NoLoader
    /\ epoch = 0
    /\ batch = 0
    /\ trainLoss = ZeroLoss
    /\ valLoss = ZeroLoss
    /\ barBound = FALSE
    /\ hist = NoHist
    /\ batchLog = <<>>
    /\ predData = NoPredData
    /\ predOut = NoPred
    /\ snap = NoDisk

\* the program is between two calls and may make another
CanCall == pc = "idle" /\ calls < MaxCalls

DropFit ==
    /\ fitTrain' = NoLoader
    /\ fitValid' = NoLoader
    /\ epoch' = 0
    /\ batch' = 0
    /\ trainLoss' = ZeroLoss
    /\ valLoss' = ZeroLoss
    /\ barBound' = FALSE
    /\ hist' = NoHist
    /\ batchLog' = <<>>

DropPredict ==
    /\ predData' = NoPredData
    /\ predOut' = NoPred

\* the caller goes on after a call that returned or raised: the call's frame,
\* its arguments and the value it returned are gone
Return ==
    /\ pc = "done"
    /\ pc' = "idle"
    /\ lastCall' = "none"
    /\ result' = "ok"
    /\ ctorArgs' = NoClf
    /\ DropFit
    /\ DropPredict
    /\ UNCHANGED <<clf, nets, disk, calls, snap>>

\* model = ImageClassifier(num_classes=..., **hyperparameters), while the
\* program holds no classifier
New ==
    /\ pc = "idle"
    /\ clf = NoClf
    /\ \E a \in CtorArgs :
        LET r == Construct(a, Len(nets) + 1)
        IN  /\ ctorArgs' = a
            /\ result' = r.result
            /\ clf' = r.obj
            \* the network of a constructor that raised is unreachable
            /\ nets' = IF r.result = "ok" THEN Append(nets, NewNet(Len(nets) + 1))
                       ELSE nets
    /\ pc' = "done"
    /\ lastCall' = "init"
    /\ UNCHANGED <<disk, calls, fitLocals, predData, predOut, snap>>

\* ---------------------------------------------------------------- get_loss
\* get_loss(model, data_loader, loss_function) on network `net`:
\* [result, net, loss]. model.eval() comes first; the forward passes run in
\* evaluation mode under no_grad; the division by len(data_loader) raises
\* ZeroDivisionError for a loader without batches.
GetLoss(net, loader) ==
    LET evalNet == [net EXCEPT !.mode = "eval"]
    IN  IF loader.n = 0
        THEN [result |-> "ZeroDivisionError", net |-> evalNet, loss |-> ZeroLoss]
        ELSE [result |-> "ok", net |-> evalNet,
              loss |-> [data |-> loader.id, state |-> StateDict(evalNet)]]

\* --------------------------------------------------------------------- fit
\* fit(train_data, valid_data), lines 152-160: model.train(), a new early
\* stopper, and the first test of range(self.max_epochs)
Fit ==
    /\ CanCall
    /\ clf.exists
    /\ \E tr \in Loaders("train"), va \in LossLoaders("valid") \cup {NoLoader} :
        /\ fitTrain' = tr
        /\ fitValid' = va
    /\ nets' = [nets EXCEPT ![clf.model].mode = "train"]
    /\ epoch' = 0
    /\ batch' = 0
    /\ trainLoss' = ZeroLoss
    /\ valLoss' = ZeroLoss
    /\ barBound' = FALSE
    /\ hist' = NoHist
    /\ batchLog' = <<>>
    /\ pc' = IF clf.max_epochs > 0 THEN "epoch" ELSE "close"
    /\ calls' = calls + 1
    /\ lastCall' = "fit"
    /\ result' = "running"
    /\ UNCHANGED <<clf, disk, ctorArgs, predData, predOut, snap>>

\* lines 161-167: the losses reset, the progress bar bound, forward_backward
\* entered and its loop over the batches tested for the first time
EpochStart ==
    /\ pc = "epoch"
    /\ trainLoss' = ZeroLoss
    /\ valLoss' = ZeroLoss
    /\ barBound' = TRUE
    /\ batch' = 0
    /\ batchLog' = <<>>
    /\ hist' = [hist EXCEPT !.epochs = @ + 1, !.optSteps = 0, !.schedSteps = 0,
                            !.schedAt = 0,
                            !.afterStop = IF hist.stopped THEN @ + 1 ELSE @]
    /\ pc' = IF fitTrain.n > 0 THEN "batch" ELSE "sched_step"
    /\ UNCHANGED <<clf, nets, disk, calls, lastCall, result, ctorArgs, fitTrain,
                   fitValid, epoch, predData, predOut, snap>>

\* optimizer.step(): the optimizer updates the parameters it was built over,
\* skipping those without a gradient
OptimizerStep(net) == IF net.grad THEN [net EXCEPT !.upd = @ + 1] ELSE net

\* C7 mutant: the optimizer stepped before backward
BatchStepsStepFirst == <<"zero_grad", "forward", "loss", "opt_step", "backward">>

\* lines 139-146: the framework calls made for one batch, in program order
BatchSteps == <<"zero_grad", "forward", "loss", "backward", "opt_step">>

\* the effect of one of these calls on the heap, for classifier obj:
\*   139 self.optimizer.zero_grad()   clears the gradients of the optimizer's parameters
\*   140 self.model(inputs)           a forward pass of self.model
\*   144 self.loss_function(...)      no effect on the networks
\*   145 loss.backward()              leaves gradients on the parameters of self.model
\*   146 self.optimizer.step()        updates the optimizer's parameters
ApplyStep(ns, obj, step) ==
    CASE step = "zero_grad" -> [ns EXCEPT ![obj.optimizer.params].grad = FALSE]
      [] step = "forward" -> [ns EXCEPT ![obj.model] = ForwardPass(@)]
      [] step = "loss" -> ns
      [] step = "backward" -> [ns EXCEPT ![obj.model].grad = TRUE]
      [] step = "opt_step" -> [ns EXCEPT ![obj.optimizer.params] = OptimizerStep(@)]

RECURSIVE RunSteps(_, _, _)
RunSteps(ns, obj, steps) ==
    IF steps = <<>> THEN ns
    ELSE RunSteps(ApplyStep(ns, obj, Head(steps)), obj, Tail(steps))

CountOf(steps, what) == Cardinality({i \in DOMAIN steps : steps[i] = what})

\* lines 137-146: one iteration of the loop of forward_backward, and the
\* loop test that follows it
TrainBatch ==
    /\ pc = "batch"
    /\ batch' = batch + 1
    /\ nets' = RunSteps(nets, clf, BatchSteps)
    /\ batchLog' = BatchSteps
    /\ hist' = [hist EXCEPT !.optSteps = @ + CountOf(BatchSteps, "opt_step")]
    /\ pc' = IF batch + 1 < fitTrain.n THEN "batch" ELSE "sched_step"
    /\ UNCHANGED <<clf, disk, calls, lastCall, result, ctorArgs, fitTrain,
                   fitValid, epoch, trainLoss, valLoss, barBound, predData,
                   predOut, snap>>

\* lines 148-149: self.lr_scheduler.step(), without arguments.
\* ReduceLROnPlateau.step(metrics, epoch=None) requires `metrics`: the call
\* raises TypeError, which ends forward_backward and fit.
SchedStep ==
    /\ pc = "sched_step"
    /\ IF clf.lr_scheduler = "None"
       THEN /\ hist' = [hist EXCEPT !.fbDone = @ + 1]
            /\ pc' = "train_loss"
            /\ UNCHANGED result
       ELSE IF clf.lr_scheduler = "ReduceLROnPlateau"
       THEN /\ hist' = [hist EXCEPT !.schedSteps = @ + 1, !.schedAt = hist.optSteps]
            /\ pc' = "done"
            /\ result' = "TypeError"
       ELSE /\ hist' = [hist EXCEPT !.schedSteps = @ + 1, !.schedAt = hist.optSteps,
                                    !.fbDone = @ + 1]
            /\ pc' = "train_loss"
            /\ UNCHANGED result
    /\ UNCHANGED <<clf, nets, disk, calls, lastCall, ctorArgs, fitTrain,
                   fitValid, epoch, batch, trainLoss, valLoss, barBound,
                   batchLog, predData, predOut, snap>>

\* lines 169-170: train_loss += get_loss(self.model, train_data, ...)
TrainLoss ==
    /\ pc = "train_loss"
    /\ LET r == GetLoss(nets[clf.model], fitTrain)
       IN  /\ nets' = [nets EXCEPT ![clf.model] = r.net]
           /\ trainLoss' = r.loss
           /\ IF r.result = "ok"
              THEN pc' = "val_loss" /\ UNCHANGED result
              ELSE pc' = "done" /\ result' = r.result
    /\ UNCHANGED <<clf, disk, calls, lastCall, ctorArgs, fitTrain, fitValid,
                   epoch, batch, valLoss, barBound, hist, batchLog, predData,
                   predOut, snap>>

\* lines 172-176: the validation loss when valid_data is given
ValLoss ==
    /\ pc = "val_loss"
    /\ IF fitValid.given
       THEN LET r == GetLoss(nets[clf.model], fitValid)
            IN  /\ nets' = [nets EXCEPT ![clf.model] = r.net]
                /\ valLoss' = r.loss
                /\ IF r.result = "ok"
                   THEN pc' = "early_stop" /\ UNCHANGED result
                   ELSE pc' = "done" /\ result' = r.result
       ELSE /\ pc' = "early_stop"
            /\ UNCHANGED <<nets, valLoss, result>>
    /\ UNCHANGED <<clf, disk, calls, lastCall, ctorArgs, fitTrain, fitValid,
                   epoch, batch, trainLoss, barBound, hist, batchLog, predData,
                   predOut, snap>>

\* the next test of range(self.max_epochs), line 160
NextEpoch == IF epoch + 1 < clf.max_epochs THEN "epoch" ELSE "close"

\* lines 178-181: the early stopper (torch_utils.early_stopping, an arbitrary
\* verdict here) called with the loss, and break when it returns true
EarlyStop ==
    /\ pc = "early_stop"
    /\ IF clf.early_stopping
       THEN \E stop \in BOOLEAN :
            /\ hist' = [hist EXCEPT !.stopCalls = @ + 1,
                                    !.stopArg = IF fitValid.given THEN valLoss
                                                ELSE trainLoss,
                                    !.stopped = stop]
            /\ IF stop
               THEN pc' = "close" /\ UNCHANGED epoch
               ELSE pc' = NextEpoch /\ epoch' = epoch + 1
       ELSE /\ pc' = NextEpoch
            /\ epoch' = epoch + 1
            /\ UNCHANGED hist
    /\ UNCHANGED <<clf, nets, disk, calls, lastCall, result, ctorArgs, fitTrain,
                   fitValid, batch, trainLoss, valLoss, barBound, batchLog,
                   predData, predOut, snap>>

\* line 182: train_progress_bar.close(); the name is bound only inside the
\* loop body, so it raises UnboundLocalError when no epoch ran
Close ==
    /\ pc = "close"
    /\ pc' = "done"
    /\ result' = IF barBound THEN "ok" ELSE "UnboundLocalError"
    /\ UNCHANGED <<clf, nets, disk, calls, lastCall, ctorArgs, fitLocals,
                   predData, predOut, snap>>


\* ----------------------------------------------------------------- predict
\* The loaders predict is tried on: every division of consecutively numbered
\* samples into at most MaxBatches batches of 1..MaxBatchSize samples.
RECURSIVE Number(_, _)
Number(sizes, from) ==
    IF sizes = <<>> THEN <<>>
    ELSE <<[i \in 1..Head(sizes) |-> from + i]>>
         \o Number(Tail(sizes), from + Head(sizes))

PredictLoaders ==
    {Number(sizes, 0) :
        sizes \in UNION {[1..k -> 1..MaxBatchSize] : k \in 0..MaxBatches}}

RECURSIVE Flatten(_)
Flatten(batches) ==
    IF batches = <<>> THEN <<>> ELSE Head(batches) \o Flatten(Tail(batches))

\* self.model(inputs) for one sample: num_classes outputs that depend on the
\* sample and on the state of the network
Logits(state, x, k) ==
    [c \in 1..k |-> ((x + state.upd) * (c - 1) + state.bn + state.init) % 3]

\* torch.max(outputs.data, 1): the index of the first maximal output
ArgMax(o) ==
    CHOOSE i \in DOMAIN o :
        /\ \A j \in DOMAIN o : o[j] <= o[i]
        /\ \A j \in DOMAIN o : j < i => o[j] < o[i]

\* F.softmax(outputs, dim=1) for one row, kept symbolic
Softmax(o) == [softmax |-> o]

\* C4 mutant: every batch replaces the rows collected so far
AppendProbsOverwrite(all_probs, probs, k) == probs

\* lines 212-216: all_probs grows by concatenation once it holds an element
\* (all_probs.size counts elements: rows times num_classes)
AppendProbs(all_probs, probs, k) ==
    IF Len(all_probs) * k # 0 THEN all_probs \o probs ELSE probs

\* lines 203-216: the loop over the batches
RECURSIVE PredictLoop(_, _, _, _)
PredictLoop(net, k, batches, acc) ==
    IF batches = <<>> THEN [net |-> net, out |-> acc]
    ELSE LET inputs == Head(batches)
             outputs == [i \in 1..Len(inputs) |-> Logits(StateDict(net), inputs[i], k)]
             probs == [i \in 1..Len(inputs) |-> Softmax(outputs[i])]
             predicted == [i \in 1..Len(inputs) |-> ArgMax(outputs[i]) - 1]
         IN  PredictLoop(ForwardPass(net), k, Tail(batches),
                         [labels |-> acc.labels \o predicted,
                          probs |-> AppendProbs(acc.probs, probs, k)])

\* line 194: self.model.eval()
PredictMode(net) == [net EXCEPT !.mode = "eval"]

\* predict(data) / predict_with_model(model, data)
Predict ==
    /\ CanCall
    /\ clf.exists
    /\ \E data \in PredictLoaders :
        LET r == PredictLoop(PredictMode(nets[clf.model]), clf.num_classes,
                             data, NoPred)
        IN  /\ predData' = [batches |-> data, state |-> StateDict(nets[clf.model])]
            /\ predOut' = r.out
            /\ nets' = [nets EXCEPT ![clf.model] = r.net]
    /\ calls' = calls + 1
    /\ lastCall' = "predict"
    /\ result' = "ok"
    /\ pc' = "done"
    /\ UNCHANGED <<clf, disk, ctorArgs, fitLocals, snap>>

\* evaluate(test_data) / evaluate_predictor_model(model, test_data)
Evaluate ==
    /\ CanCall
    /\ clf.exists
    /\ \E te \in LossLoaders("test") :
        LET r == GetLoss(nets[clf.model], te)
        IN  /\ nets' = [nets EXCEPT ![clf.model] = r.net]
            /\ result' = r.result
    /\ calls' = calls + 1
    /\ lastCall' = "evaluate"
    /\ pc' = "done"
    /\ UNCHANGED <<clf, disk, ctorArgs, fitLocals, predData, predOut, snap>>

\* ------------------------------------------------------------- save / load
\* lines 239-249: the model_params dictionary written by save
ModelParams(obj) ==
    [lr |-> obj.lr,
     optimizer |-> obj.optimizer_str,
     lr_scheduler |-> obj.lr_scheduler_str,
     lr_scheduler_kwargs |-> obj.lr_scheduler_kwargs,
     max_epochs |-> obj.max_epochs,
     early_stopping |-> obj.early_stopping,
     early_stopping_patience |-> obj.early_stopping_patience,
     early_stopping_delta |-> obj.early_stopping_delta,
     num_classes |-> obj.num_classes]

\* save_predictor_model(model, d): the directory made when missing, then
\* model_params.joblib and model_state.pth written
Save ==
    /\ CanCall
    /\ clf.exists
    /\ disk' = [exists |-> TRUE, params |-> ModelParams(clf),
                state |-> StateDict(nets[clf.model])]
    /\ snap' = [exists |-> TRUE, obj |-> clf, net |-> nets[clf.model]]
    /\ calls' = calls + 1
    /\ lastCall' = "save"
    /\ result' = "ok"
    /\ pc' = "done"
    /\ UNCHANGED <<clf, nets, ctorArgs, fitLocals, predData, predOut>>

\* C3 mutant: load_state_dict left out
LoadedNetFresh(id, state) == NewNet(id)

\* lines 271-277: a fresh network given the saved state dictionary
LoadedNet(id, state) == LoadStateDict(NewNet(id), state)

\* load_predictor_model(d) / ImageClassifier.load(d): the files read, a
\* network built and given the saved state, a classifier constructed from the
\* saved parameters (with a network and an optimizer of its own), and the
\* classifier's model attribute then set to the loaded network
Load ==
    /\ CanCall
    /\ IF ~disk.exists
       THEN /\ result' = "FileNotFoundError"
            /\ UNCHANGED <<clf, nets>>
       ELSE LET m == Len(nets) + 1
                r == Construct(disk.params, Len(nets) + 2)
            IN  /\ result' = r.result
                /\ IF r.result = "ok"
                   THEN /\ clf' = [r.obj EXCEPT !.model = m]
                        /\ nets' = nets \o <<LoadedNet(m, disk.state), NewNet(m + 1)>>
                   ELSE UNCHANGED <<clf, nets>>
    /\ calls' = calls + 1
    /\ lastCall' = "load"
    /\ pc' = "done"
    /\ UNCHANGED <<disk, ctorArgs, fitLocals, predData, predOut, snap>>

Next ==
    \/ Return
    \/ New
    \/ Fit
    \/ EpochStart
    \/ TrainBatch
    \/ SchedStep
    \/ TrainLoss
    \/ ValLoss
    \/ EarlyStop
    \/ Close
    \/ Predict
    \/ Evaluate
    \/ Save
    \/ Load

Spec == Init /\ [][Next]_vars


\* ------------------------------------------------------------- properties
FitEnded == pc = "done" /\ lastCall = "fit"

\* fit was given loaders that hold at least one batch each
NonEmptyLoaders == fitTrain.n >= 1 /\ (fitValid.given => fitValid.n >= 1)

\* the nine hyperparameters C3 names, read from the attributes of a classifier
HyperParams(obj) ==
    [lr |-> obj.lr,
     optimizer |-> obj.optimizer_str,
     lr_scheduler |-> obj.lr_scheduler_str,
     lr_scheduler_kwargs |-> obj.lr_scheduler_kwargs,
     max_epochs |-> obj.max_epochs,
     early_stopping |-> obj.early_stopping,
     early_stopping_patience |-> obj.early_stopping_patience,
     early_stopping_delta |-> obj.early_stopping_delta,
     num_classes |-> obj.num_classes]

SupportedOptimizers == {"adam", "sgd"}
SupportedSchedulers == {"step", "exponential", "plateau", "cosine_annealing"}

\* C1: when fit ends, on a classifier with max_epochs >= 1 and loaders that
\* hold batches, it has run exactly max_epochs forward_backward passes if
\* early_stopping is False, and at most max_epochs if it is True.
C1_FitRunsMaxEpochs ==
    (FitEnded /\ clf.max_epochs >= 1 /\ NonEmptyLoaders) =>
        IF clf.early_stopping
        THEN hist.fbDone <= clf.max_epochs
        ELSE hist.fbDone = clf.max_epochs

\* C2: when fit ends, with early_stopping the stopper was called once in every
\* epoch begun, its last argument was that epoch's validation loss (training
\* loss without valid_data), fit ended because the stopper returned true or
\* max_epochs epochs ran, and nothing ran after the stopper returned true;
\* without early_stopping the stopper was never called and max_epochs epochs ran.
C2_StopperDecidesTheEnd ==
    (FitEnded /\ clf.max_epochs >= 1 /\ NonEmptyLoaders) =>
        IF clf.early_stopping
        THEN /\ hist.stopCalls = hist.epochs
             /\ hist.stopArg = (IF fitValid.given THEN valLoss ELSE trainLoss)
             /\ hist.stopArg # ZeroLoss
             /\ hist.stopped \/ hist.epochs = clf.max_epochs
             /\ hist.afterStop = 0
        ELSE /\ hist.stopCalls = 0
             /\ hist.epochs = clf.max_epochs

\* C3: a load that follows a save succeeds and returns a classifier whose nine
\* hyperparameters equal those of the classifier that was saved and whose
\* state dictionary equals the one that classifier's model had at the save.
C3_SaveLoadRoundTrip ==
    (pc = "done" /\ lastCall = "load" /\ disk.exists) =>
        /\ result = "ok"
        /\ clf.exists
        /\ HyperParams(clf) = HyperParams(snap.obj)
        /\ StateDict(nets[clf.model]) = StateDict(snap.net)

\* C3 witness: a classifier trained by fit, saved and loaded
C3_Witness ==
    /\ pc = "done"
    /\ lastCall = "load"
    /\ result = "ok"
    /\ nets[clf.model].upd > 0
    /\ nets[clf.model].bn > 0

\* C4: predict over a loader of N samples returns N labels and N probability
\* rows in loader order; label i is the index of a largest output of sample i,
\* row i is the softmax of the outputs of sample i; the state dictionary of
\* the model is the one it had before the call.
C4_PredictPerSample ==
    (pc = "done" /\ lastCall = "predict") =>
        LET xs == Flatten(predData.batches)
            out(i) == Logits(predData.state, xs[i], clf.num_classes)
        IN  /\ Len(predOut.labels) = Len(xs)
            /\ Len(predOut.probs) = Len(xs)
            /\ \A i \in 1..Len(xs) :
                /\ predOut.labels[i] \in 0..(clf.num_classes - 1)
                /\ \A c \in 1..clf.num_classes :
                    out(i)[c] <= out(i)[predOut.labels[i] + 1]
                /\ predOut.probs[i] = Softmax(out(i))
            /\ StateDict(nets[clf.model]) = predData.state

\* C4 witness: predict over two batches of different sizes whose samples get
\* different labels, on a trained model
C4_Witness ==
    /\ pc = "done"
    /\ lastCall = "predict"
    /\ Len(predData.batches) = 2
    /\ Len(predData.batches[1]) # Len(predData.batches[2])
    /\ predData.state.upd > 0
    /\ \E i, j \in 1..Len(predOut.labels) : predOut.labels[i] # predOut.labels[j]

\* C5: a fit that ends on a classifier built with one of the four documented
\* scheduler names (max_epochs >= 1, loaders that hold batches) has not raised.
C5_SupportedSchedulersTrain ==
    (FitEnded /\ clf.lr_scheduler_str \in SupportedSchedulers
        /\ clf.max_epochs >= 1 /\ NonEmptyLoaders) => result = "ok"

\* C6: the constructor raises ValueError, and leaves no classifier, exactly
\* when the optimizer name is not adam or sgd or the scheduler name is neither
\* None nor one of the four supported names; a classifier that is built holds
\* the class its names stand for; with lr_scheduler None it is built without a
\* scheduler whatever the kwargs are.
C6_NamesValidated ==
    (pc = "done" /\ lastCall = "init") =>
        LET badOpt == ctorArgs.optimizer \notin SupportedOptimizers
            badSch == /\ ctorArgs.lr_scheduler # "None"
                      /\ ctorArgs.lr_scheduler \notin SupportedSchedulers
        IN  /\ (result = "ValueError") = (badOpt \/ badSch)
            /\ result # "ok" => clf = NoClf
            /\ (~badOpt /\ ctorArgs.lr_scheduler = "None") =>
                    result = "ok" /\ clf.lr_scheduler = "None"
            /\ result = "ok" =>
                /\ clf.exists
                /\ clf.optimizer.cls =
                      (IF ctorArgs.optimizer = "adam" THEN "Adam" ELSE "SGD")
                /\ clf.lr_scheduler =
                      (CASE ctorArgs.lr_scheduler = "None" -> "None"
                         [] ctorArgs.lr_scheduler = "step" -> "StepLR"
                         [] ctorArgs.lr_scheduler = "exponential" -> "ExponentialLR"
                         [] ctorArgs.lr_scheduler = "plateau" -> "ReduceLROnPlateau"
                         [] ctorArgs.lr_scheduler = "cosine_annealing" -> "CosineAnnealingLR")

\* C6 witness: a supported optimizer with an unsupported scheduler name
C6_Witness ==
    /\ pc = "done"
    /\ lastCall = "init"
    /\ ctorArgs.optimizer = "sgd"
    /\ ctorArgs.lr_scheduler = "linear"
    /\ result = "ValueError"
    /\ clf = NoClf

\* the last forward_backward that fit began has returned or raised
ForwardBackwardOver ==
    pc \in {"train_loss", "val_loss", "early_stop", "close", "done"} /\ hist.epochs > 0

C8_ModesDuringFit ==
    /\ pc \in {"batch", "sched_step"} => nets[clf.model].mode = "train"
    /\ pc \in {"val_loss", "early_stop"} => nets[clf.model].mode = "eval"

\* C9: the optimizer of the classifier the program holds updates the
\* parameters of that classifier's model.
C9_OptimizerUpdatesModel ==
    clf.exists => clf.optimizer.params = clf.model

\* C10: fit on a classifier with max_epochs = 0 returns normally and has run
\* no epoch, computed no loss and never called the stopper.
C10_ZeroEpochsReturns ==
    (FitEnded /\ clf.max_epochs = 0) =>
        /\ result = "ok"
        /\ hist.epochs = 0
        /\ hist.stopCalls = 0
        /\ trainLoss = ZeroLoss
        /\ valLoss = ZeroLoss

=============================================================================
